---------------------------- MODULE Spec2Model ----------------------------
(***************************************************************************)
(* A model of the child-log message parser (src/parser.py) and of the      *)
(* chat front end that calls it (src/telegram.py).                         *)
(*                                                                         *)
(* Text is modelled at character level: a Python str is a sequence of      *)
(* one-character strings, so that the regular expressions and the          *)
(* str.replace / str.lower / str.strip calls of the source are computed    *)
(* the way the source computes them.                                       *)
(*                                                                         *)
(* Python's None is modelled by two values, because TLC cannot compare a   *)
(* sequence with a record: NoneStr stands for None where the source holds  *)
(* an Optional[str], None for None where it holds an optional object.      *)
(* An int or float that may be None is boxed: [type |-> "int", value].     *)
(***************************************************************************)
EXTENDS Integers, Sequences, FiniteSets, TLC

VARIABLES
    text,                  \* parse_message: its argument, a sequence of raw lines
    pc,                    \* position of the running call
    lines,                 \* parse_message: lines
    idx,                   \* parse_message: index of the line the second loop is at
    timestamp,             \* parse_message: timestamp
    errors,                \* parse_message: errors
    breastfeeding_events,  \* parse_message: breastfeeding_events
    bottle_events,         \* parse_message: bottle_events
    diaper_events,         \* parse_message: diaper_events
    result,                \* what parse_message returned (or raised)
    arg,                   \* argument of a field extractor or combiner called alone
    ret,                   \* its return value
    now,                   \* telegram.py: datetime.now(), in seconds since startup
    cleanup_wake,          \* cleanup_expired: when its asyncio.sleep(60) ends
    pending_confirmations, \* telegram.py: pending_confirmations, a dict keyed by message id
    next_message_id,       \* the message id Telegram gives the next confirmation message
    uploads,               \* the calls of upload_to_huckleberry so far
    sent                   \* the text of the last send_message / send_confirmation

\* the state of the bot of telegram.py
bot == <<now, cleanup_wake, pending_confirmations, next_message_id, uploads, sent>>

vars == <<text, pc, lines, idx, timestamp, errors, breastfeeding_events,
          bottle_events, diaper_events, result, arg, ret, bot>>

\* telegram.py at startup: nothing pending, the cleanup task just created
Startup ==
    /\ now = 0
    /\ cleanup_wake = 0
    /\ pending_confirmations = <<>>
    /\ next_message_id = 1
    /\ uploads = <<>>
    /\ sent = ""

None == [type |-> "None"]
NoneStr == <<"None">>

BoxInt(n) == [type |-> "int", value |-> n]

(***************************************************************************)
(* Characters and str methods                                              *)
(***************************************************************************)
Digits == <<"0", "1", "2", "3", "4", "5", "6", "7", "8", "9">>
UpperCase == <<"A", "B", "C", "D", "E", "F", "G", "H", "I", "J", "K", "L", "M",
               "N", "O", "P", "Q", "R", "S", "T", "U", "V", "W", "X", "Y", "Z">>
LowerCase == <<"a", "b", "c", "d", "e", "f", "g", "h", "i", "j", "k", "l", "m",
               "n", "o", "p", "q", "r", "s", "t", "u", "v", "w", "x", "y", "z">>

Range(s) == {s[i] : i \in DOMAIN s}

IsDigit(c) == c \in Range(Digits)
IsSpace(c) == c \in {" ", "\t", "\n"}
IsWordChar(c) == c \in Range(Digits) \cup Range(UpperCase) \cup Range(LowerCase) \cup {"_"}

DigitVal(c) == (CHOOSE i \in DOMAIN Digits : Digits[i] = c) - 1

LowerChar(c) ==
    IF c \in Range(UpperCase)
    THEN LowerCase[CHOOSE i \in DOMAIN UpperCase : UpperCase[i] = c]
    ELSE c

\* str.lower()
lower(s) == [i \in 1..Len(s) |-> LowerChar(s[i])]

\* s[p:] starts with pat
StartsWith(s, p, pat) ==
    /\ p + Len(pat) - 1 <= Len(s)
    /\ \A k \in 1..Len(pat) : s[p + k - 1] = pat[k]

RECURSIVE ReplaceFrom(_, _, _, _)
ReplaceFrom(s, p, old, new) ==
    IF p > Len(s) THEN <<>>
    ELSE IF StartsWith(s, p, old)
         THEN new \o ReplaceFrom(s, p + Len(old), old, new)
         ELSE <<s[p]>> \o ReplaceFrom(s, p + 1, old, new)

\* str.replace(old, new), old non-empty
replace(s, old, new) == ReplaceFrom(s, 1, old, new)

RECURSIVE LStrip(_)
LStrip(s) == IF s # <<>> /\ IsSpace(Head(s)) THEN LStrip(Tail(s)) ELSE s

RECURSIVE RStrip(_)
RStrip(s) ==
    IF s # <<>> /\ IsSpace(s[Len(s)]) THEN RStrip(SubSeq(s, 1, Len(s) - 1)) ELSE s

\* str.strip()
strip(s) == RStrip(LStrip(s))

\* int(s) of a string of decimal digits
RECURSIVE int(_)
int(s) == IF s = <<>> THEN 0 ELSE 10 * int(SubSeq(s, 1, Len(s) - 1)) + DigitVal(s[Len(s)])

(***************************************************************************)
(* Pieces of regular-expression matching                                   *)
(***************************************************************************)
\* the position after the longest run of digits (\d+, greedy) starting at p
RECURSIVE DigitsEnd(_, _)
DigitsEnd(s, p) == IF p <= Len(s) /\ IsDigit(s[p]) THEN DigitsEnd(s, p + 1) ELSE p

\* the position after the longest run of white space (\s*, greedy) starting at p
RECURSIVE SpaceEnd(_, _)
SpaceEnd(s, p) == IF p <= Len(s) /\ IsSpace(s[p]) THEN SpaceEnd(s, p + 1) ELSE p

\* the character at p is c, whatever its case (re.IGNORECASE)
CharIs(s, p, c) == p <= Len(s) /\ LowerChar(s[p]) = c


(***************************************************************************)
(* Python numbers.  A float is kept exactly, as num / den with den a power *)
(* of ten and no trailing zero digit, so that 120.0 and 120 are one value. *)
(***************************************************************************)
RECURSIVE Normalize(_)
Normalize(x) ==
    IF x.den > 1 /\ x.num % 10 = 0
    THEN Normalize([x EXCEPT !.num = x.num \div 10, !.den = x.den \div 10])
    ELSE x

Num(n) == [type |-> "number", num |-> n, den |-> 1]

\* a + b
Add(a, b) ==
    Normalize([type |-> "number", num |-> a.num * b.den + b.num * a.den, den |-> a.den * b.den])

\* a / 2
Half(a) == Normalize([type |-> "number", num |-> 5 * a.num, den |-> 10 * a.den])

RECURSIVE Pow10(_)
Pow10(k) == IF k = 0 THEN 1 ELSE 10 * Pow10(k - 1)

\* round(n / d) to the nearest integer, an exact tie going to the even one
RoundDiv(n, d) ==
    LET q == n \div d
        r == n % d
    IN  IF 2 * r > d \/ (2 * r = d /\ q % 2 = 1) THEN q + 1 ELSE q

(***************************************************************************)
(* Duration / Amount / Time parsers                                        *)
(*                                                                         *)
(* A regular expression's search is the record of its groups; a group that *)
(* took no part in the match (None in Python) is the empty string here.    *)
(* Each search is written as a chain of operators, one per part of the     *)
(* pattern, handing the positions reached so far to the next.              *)
(***************************************************************************)
\* second part of DURATION_REGEX, (?:(\d+)\s*m)?, tried at p2, where the digits
\* found there end at mEnd
DurationMinutes(s, group1, p2, mEnd) ==
    [matched |-> TRUE,
     group1 |-> group1,
     group2 |-> IF mEnd > p2 /\ CharIs(s, SpaceEnd(s, mEnd), "m")
                THEN SubSeq(s, p2, mEnd - 1) ELSE <<>>]

\* first part of DURATION_REGEX, (?:(\d+)\s*h)?, tried at the first position: the
\* digits there end at hEnd and the white space after them at hUnit; then \s*
DurationHours(s, hEnd, hUnit) ==
    IF hEnd > 1 /\ CharIs(s, hUnit, "h")
    THEN DurationMinutes(s, SubSeq(s, 1, hEnd - 1), SpaceEnd(s, hUnit + 1),
                         DigitsEnd(s, SpaceEnd(s, hUnit + 1)))
    ELSE DurationMinutes(s, <<>>, SpaceEnd(s, 1), DigitsEnd(s, SpaceEnd(s, 1)))

\* DURATION_REGEX.search(text): (?:(\d+)\s*h)?\s*(?:(\d+)\s*m)?, re.IGNORECASE.
\* Both parts are optional, so the search always matches, at the first position.
DURATION_REGEX(s) == DurationHours(s, DigitsEnd(s, 1), SpaceEnd(s, DigitsEnd(s, 1)))

\* the first position of s that holds a digit (s holds one)
FirstDigit(s) ==
    CHOOSE q \in DOMAIN s : IsDigit(s[q]) /\ \A r \in 1..(q - 1) : ~IsDigit(s[r])

\* re.search(r'\d+', text): the first run of digits, <<>> when there is none
FirstNumber(s) ==
    IF \E p \in DOMAIN s : IsDigit(s[p])
    THEN SubSeq(s, FirstDigit(s), DigitsEnd(s, FirstDigit(s)) - 1)
    ELSE <<>>

\* the text of parse_duration after its chain of replacements (lines 75-79)
DurationWords(s) ==
    replace(
      replace(
        replace(
          replace(
            replace(
              replace(lower(s), <<"h","o","u","r","s">>, <<"h">>),
              <<"h","o","u","r">>, <<"h">>),
            <<"m","i","n","u","t","e","s">>, <<"m">>),
          <<"m","i","n","u","t","e">>, <<"m">>),
        <<"m","i","n","s">>, <<"m">>),
      <<"m","i","n","u","t","s">>, <<"m">>)

\* lines 94-101: the fallback to the first number, and the result
DurationResult(t, total) ==
    IF total = 0 /\ FirstNumber(t) # <<>> THEN BoxInt(int(FirstNumber(t)))
    ELSE IF total > 0 THEN BoxInt(total) ELSE None

\* lines 82-92: the total of the two groups
DurationTotal(t, match) ==
    IF ~match.matched THEN None
    ELSE DurationResult(t, (IF match.group1 # <<>> THEN int(match.group1) * 60 ELSE 0)
                           + (IF match.group2 # <<>> THEN int(match.group2) ELSE 0))

DurationOfWords(t) == DurationTotal(t, DURATION_REGEX(t))

parse_duration(s) == DurationOfWords(DurationWords(s))

\* (ml|oz) at u
UnitAt(s, u) ==
    IF CharIs(s, u, "m") /\ CharIs(s, u + 1, "l") THEN <<"m","l">>
    ELSE IF CharIs(s, u, "o") /\ CharIs(s, u + 1, "z") THEN <<"o","z">>
    ELSE <<>>

\* \s*(ml|oz) after the number, whose white space ends at u
AmountUnit(s, whole, frac, u) ==
    [matched |-> whole # <<>> /\ UnitAt(s, u) # <<>>,
     whole |-> whole, frac |-> frac, group2 |-> UnitAt(s, u)]

\* (?:\.\d+)? after the digits that end at dEnd
AmountFraction(s, p, dEnd) ==
    IF CharIs(s, dEnd, ".") /\ DigitsEnd(s, dEnd + 1) > dEnd + 1
    THEN AmountUnit(s, SubSeq(s, p, dEnd - 1),
                    SubSeq(s, dEnd + 1, DigitsEnd(s, dEnd + 1) - 1),
                    SpaceEnd(s, DigitsEnd(s, dEnd + 1)))
    ELSE AmountUnit(s, SubSeq(s, p, dEnd - 1), <<>>, SpaceEnd(s, dEnd))

\* AMOUNT_REGEX matched with its first character at p:
\* (\d+(?:\.\d+)?)\s*(ml|oz), re.IGNORECASE
AmountAt(s, p) == AmountFraction(s, p, DigitsEnd(s, p))

AmountStarts(s) == {p \in DOMAIN s : AmountAt(s, p).matched}

\* AMOUNT_REGEX.search(text): the match at the leftmost position that has one
AMOUNT_REGEX(s) ==
    IF AmountStarts(s) = {}
    THEN [matched |-> FALSE, whole |-> <<>>, frac |-> <<>>, group2 |-> <<>>]
    ELSE AmountAt(s, CHOOSE p \in AmountStarts(s) : \A q \in AmountStarts(s) : p <= q)

\* lines 112-117: ounces are converted, value * 29.5735 rounded to 2 places
AmountInMl(unit, value) ==
    IF unit = <<"o","z">>
    THEN Normalize([type |-> "number",
                    num |-> RoundDiv(value.num * 295735, value.den * 100),
                    den |-> 100])
    ELSE value

\* lines 106-110: float(match.group(1))
AmountOfMatch(match) ==
    IF ~match.matched THEN None
    ELSE AmountInMl(match.group2,
                    Normalize([type |-> "number",
                               num |-> int(match.whole \o match.frac),
                               den |-> Pow10(Len(match.frac))]))

parse_amount(s) == AmountOfMatch(AMOUNT_REGEX(s))

\* (am|pm|a\.m\.|p\.m\.)? at sp, the alternatives in the order the pattern tries them
MeridianAt(low, sp) ==
    IF StartsWith(low, sp, <<"a","m">>) THEN <<"a","m">>
    ELSE IF StartsWith(low, sp, <<"p","m">>) THEN <<"p","m">>
    ELSE IF StartsWith(low, sp, <<"a",".","m",".">>) THEN <<"a",".","m",".">>
    ELSE IF StartsWith(low, sp, <<"p",".","m",".">>) THEN <<"p",".","m",".">>
    ELSE <<>>

\* (?::(\d{2}))?\s*(...)? after the hour digits s[p..hEnd-1]
ClockMinutes(s, p, hEnd) ==
    IF /\ CharIs(s, hEnd, ":")
       /\ hEnd + 2 <= Len(s)
       /\ IsDigit(s[hEnd + 1]) /\ IsDigit(s[hEnd + 2])
    THEN [matched |-> TRUE,
          group1 |-> SubSeq(s, p, hEnd - 1),
          group2 |-> SubSeq(s, hEnd + 1, hEnd + 2),
          group3 |-> MeridianAt(lower(s), SpaceEnd(s, hEnd + 3))]
    ELSE [matched |-> TRUE,
          group1 |-> SubSeq(s, p, hEnd - 1),
          group2 |-> <<>>,
          group3 |-> MeridianAt(lower(s), SpaceEnd(s, hEnd))]

\* (\d{1,2}) at p: one digit, or two when a second follows
ClockHour(s, p) ==
    ClockMinutes(s, p, IF p + 1 <= Len(s) /\ IsDigit(s[p + 1]) THEN p + 2 ELSE p + 1)

\* CLOCK_REGEX.search(text): (\d{1,2})(?::(\d{2}))?\s*(am|pm|a\.m\.|p\.m\.)?,
\* re.IGNORECASE.  It matches at the first digit of the text, all that follows the
\* hour being optional.
CLOCK_REGEX(s) ==
    IF \A p \in DOMAIN s : ~IsDigit(s[p])
    THEN [matched |-> FALSE, group1 |-> <<>>, group2 |-> <<>>, group3 |-> <<>>]
    ELSE ClockHour(s, FirstDigit(s))

\* lines 138-144: datetime.replace raises ValueError for an hour outside 0..23 or
\* a minute outside 0..59, and the bare except turns that into None
ReplaceTime(base_date, hour, minute) ==
    IF hour \in 0..23 /\ minute \in 0..59
    THEN [base_date EXCEPT !.hour = hour, !.minute = minute, !.second = 0, !.microsecond = 0]
    ELSE None

\* lines 131-136: the 12-hour conversion
MeridianHour(hour, meridian) ==
    IF meridian = <<"p","m">> /\ hour # 12 THEN hour + 12
    ELSE IF meridian = <<"a","m">> /\ hour = 12 THEN 0
    ELSE hour

\* lines 124-129
TimeOfMatch(match, base_date) ==
    IF ~match.matched THEN None
    ELSE ReplaceTime(base_date,
                     MeridianHour(int(match.group1), replace(match.group3, <<".">>, <<>>)),
                     IF match.group2 # <<>> THEN int(match.group2) ELSE 0)

parse_time_line(s, base_date) ==
    TimeOfMatch(CLOCK_REGEX(strip(replace(lower(s), <<"t","i","m","e">>, <<>>))), base_date)

(***************************************************************************)
(* Fuzzy matching utilities                                                *)
(***************************************************************************)
FUZZY_THRESHOLD == 80

Max(a, b) == IF a >= b THEN a ELSE b

\* One row of the longest-common-subsequence table: acc[j + 1] is the length for
\* the prefix of a that ends with c and the first j characters of b.
RECURSIVE LcsRow(_, _, _, _)
LcsRow(prev, c, b, acc) ==
    IF Len(acc) = Len(b) + 1 THEN acc
    ELSE LET j == Len(acc)
         IN  LcsRow(prev, c, b,
                    Append(acc, IF c = b[j] THEN prev[j] + 1 ELSE Max(prev[j + 1], acc[j])))

RECURSIVE LcsFrom(_, _, _, _)
LcsFrom(a, b, i, prev) ==
    IF i > Len(a) THEN prev[Len(b) + 1]
    ELSE LcsFrom(a, b, i + 1, LcsRow(prev, a[i], b, <<0>>))

\* the length of a longest common subsequence of a and b
Lcs(a, b) == LcsFrom(a, b, 1, [j \in 1..(Len(b) + 1) |-> 0])

\* rapidfuzz's fuzz.ratio(a, b): the normalised Indel similarity,
\* 100 * (1 - (len(a) + len(b) - 2 * lcs) / (len(a) + len(b))), kept as a fraction
ratio(a, b) ==
    IF Len(a) + Len(b) = 0 THEN [num |-> 100, den |-> 1]
    ELSE [num |-> 200 * Lcs(a, b), den |-> Len(a) + Len(b)]

\* x > y and x >= n for scores kept as fractions
ScoreGreater(x, y) == x.num * y.den > y.num * x.den
ScoreAtLeast(x, n) == x.num >= n * x.den

\* re.findall(r'\w+', s), reading s from position p with the token cur open
RECURSIVE FindWords(_, _, _)
FindWords(s, p, cur) ==
    IF p > Len(s) THEN (IF cur = <<>> THEN <<>> ELSE <<cur>>)
    ELSE IF IsWordChar(s[p]) THEN FindWords(s, p + 1, Append(cur, s[p]))
    ELSE (IF cur = <<>> THEN <<>> ELSE <<cur>>) \o FindWords(s, p + 1, <<>>)

fuzzy_contains(s, keywords) ==
    LET tokens == FindWords(lower(s), 1, <<>>)
    IN  \E t \in DOMAIN tokens : \E k \in DOMAIN keywords :
            ScoreAtLeast(ratio(tokens[t], keywords[k]), FUZZY_THRESHOLD)

\* the two nested loops of fuzzy_extract_keyword, at pair n of the scan
RECURSIVE ScanBest(_, _, _, _, _)
ScanBest(tokens, keywords, n, best_score, best_match) ==
    IF n > Len(tokens) * Len(keywords) THEN [best_score |-> best_score, best_match |-> best_match]
    ELSE LET token == tokens[((n - 1) \div Len(keywords)) + 1]
             keyword == keywords[((n - 1) % Len(keywords)) + 1]
             score == ratio(token, keyword)
         IN  IF ScoreGreater(score, best_score)
             THEN ScanBest(tokens, keywords, n + 1, score, keyword)
             ELSE ScanBest(tokens, keywords, n + 1, best_score, best_match)

fuzzy_extract_keyword(s, keywords) ==
    LET tokens == FindWords(lower(s), 1, <<>>)
        best == ScanBest(tokens, keywords, 1, [num |-> 0, den |-> 1], NoneStr)
    IN  IF ScoreAtLeast(best.best_score, FUZZY_THRESHOLD) THEN best.best_match ELSE NoneStr

(***************************************************************************)
(* Keyword and label tables                                                *)
(***************************************************************************)
LEFT == <<"l","e","f","t">>
RIGHT == <<"r","i","g","h","t">>
EACH == <<"e","a","c","h">>
BOTH == <<"b","o","t","h">>
BREAST_SIDES == <<LEFT, RIGHT, EACH, BOTH>>

PEE == <<"p","e","e">>
POO == <<"p","o","o">>

LITTLE == <<"l","i","t","t","l","e">>
MEDIUM == <<"m","e","d","i","u","m">>
BIG == <<"b","i","g">>

\* the keys of DIAPER_AMOUNT, in insertion order, and the dictionary itself
DIAPER_AMOUNT_keys ==
    <<LITTLE, <<"s","m","a","l","l">>, MEDIUM, BIG, <<"l","a","r","g","e">> >>
DIAPER_AMOUNT(k) ==
    IF k \in {LITTLE, <<"s","m","a","l","l">>} THEN LITTLE
    ELSE IF k = MEDIUM THEN MEDIUM
    ELSE BIG

FORMULA == <<"F","o","r","m","u","l","a">>
BREAST_MILK == <<"B","r","e","a","s","t"," ","M","i","l","k">>

\* the keys of BOTTLE_TYPES, in insertion order, and the dictionary itself
BOTTLE_TYPES_keys ==
    << <<"f","o","r","m","u","l","a">>, <<"m","i","l","k">>,
       <<"b","r","e","a","s","t","m","i","l","k">> >>
BOTTLE_TYPES(k) == IF k = <<"f","o","r","m","u","l","a">> THEN FORMULA ELSE BREAST_MILK

PEE_KEYWORDS == <<PEE, <<"w","e","t">>, <<"u","r","i","n","e">> >>
POO_KEYWORDS == << <<"p","o","o","p">>, <<"p","o","t","t","y">>, <<"d","i","r","t","y">> >>

(***************************************************************************)
(* Events and their combination                                            *)
(***************************************************************************)
DiaperEvent(diaper_type, poo_size, pee_size, color, consistency, ts) ==
    [type |-> "DiaperEvent", diaper_type |-> diaper_type, poo_size |-> poo_size,
     pee_size |-> pee_size, color |-> color, consistency |-> consistency, timestamp |-> ts]

BreastFeedingEvent(right_duration_minutes, left_duration_minutes, ts) ==
    [type |-> "BreastFeedingEvent", right_duration_minutes |-> right_duration_minutes,
     left_duration_minutes |-> left_duration_minutes, timestamp |-> ts]

BottleFeedingEvent(quantity_ml, feed_type, ts) ==
    [type |-> "BottleFeedingEvent", quantity_ml |-> quantity_ml, feed_type |-> feed_type,
     timestamp |-> ts]

\* dict.get(key) of an observation whose values are strings
Get(e, key) == IF key \in DOMAIN e THEN e[key] ELSE NoneStr

\* the dictionary `combined` of combine_bottle_feeding_events after the events
\* from n on, kept as the sequence of its items in insertion order
RECURSIVE BottleTotals(_, _, _)
BottleTotals(events, n, combined) ==
    IF n > Len(events) THEN combined
    ELSE LET feed_type == events[n].feed_type
             quantity == events[n].quantity_ml
         IN  IF \E i \in DOMAIN combined : combined[i].feed_type = feed_type
             THEN BottleTotals(events, n + 1,
                      [i \in DOMAIN combined |->
                          IF combined[i].feed_type = feed_type
                          THEN [combined[i] EXCEPT !.quantity_ml = Add(@, quantity)]
                          ELSE combined[i]])
             ELSE BottleTotals(events, n + 1,
                      Append(combined, [feed_type |-> feed_type, quantity_ml |-> quantity]))

combine_bottle_feeding_events(events) ==
    LET combined == BottleTotals(events, 1, <<>>)
    IN  [i \in DOMAIN combined |->
            BottleFeedingEvent(combined[i].quantity_ml, combined[i].feed_type, None)]

\* BreastTotals adding the whole duration of a 'both' observation to each side
RECURSIVE BreastTotalsBothWhole(_, _, _, _)
BreastTotalsBothWhole(events, n, left_duration, right_duration) ==
    IF n > Len(events)
    THEN [left_duration |-> left_duration, right_duration |-> right_duration]
    ELSE LET side == events[n].side
             d == Num(events[n].duration_minutes)
         IN  BreastTotalsBothWhole(events, n + 1,
                 IF side \in {LEFT, EACH, BOTH} THEN Add(left_duration, d) ELSE left_duration,
                 IF side \in {RIGHT, EACH, BOTH} THEN Add(right_duration, d) ELSE right_duration)

\* lines 224-237: the loop of combine_breastfeeding_events from event n on
RECURSIVE BreastTotals(_, _, _, _)
BreastTotals(events, n, left_duration, right_duration) ==
    IF n > Len(events)
    THEN [left_duration |-> left_duration, right_duration |-> right_duration]
    ELSE LET side == events[n].side
             d == Num(events[n].duration_minutes)
         IN  IF side = LEFT THEN BreastTotals(events, n + 1, Add(left_duration, d), right_duration)
             ELSE IF side = RIGHT
                  THEN BreastTotals(events, n + 1, left_duration, Add(right_duration, d))
             ELSE IF side = EACH
                  THEN BreastTotals(events, n + 1, Add(left_duration, d), Add(right_duration, d))
             ELSE IF side = BOTH
                  THEN BreastTotals(events, n + 1, Add(left_duration, Half(d)),
                                    Add(right_duration, Half(d)))
             ELSE BreastTotals(events, n + 1, left_duration, right_duration)

combine_breastfeeding_events(events) ==
    IF Len(events) = 0 THEN None
    ELSE LET t == BreastTotals(events, 1, Num(0), Num(0))
         IN  BreastFeedingEvent(t.right_duration, t.left_duration, None)

\* next((e for e in events if e["diaper_type"] == kind), None)
FirstOfType(events, kind) ==
    IF \E i \in DOMAIN events : events[i].diaper_type = kind
    THEN events[CHOOSE i \in DOMAIN events :
                    /\ events[i].diaper_type = kind
                    /\ \A j \in 1..(i - 1) : events[j].diaper_type # kind]
    ELSE None

ValueError == [type |-> "ValueError", msg |-> "Both pee and poo events are required to combine"]

combine_diaper_events(events) ==
    IF Len(events) = 0 THEN None
    ELSE IF Len(events) = 1
    THEN LET e == events[1]
         IN  DiaperEvent(e.diaper_type, Get(e, "poo_size"), Get(e, "pee_size"),
                         Get(e, "color"), Get(e, "consistency"), None)
    ELSE LET pee_event == FirstOfType(events, PEE)
             poo_event == FirstOfType(events, POO)
         IN  IF pee_event = None \/ poo_event = None THEN ValueError
             ELSE DiaperEvent(BOTH, Get(poo_event, "size"), Get(pee_event, "size"),
                              Get(poo_event, "color"), Get(poo_event, "consistency"), None)

(***************************************************************************)
(* Main parser: parse_message(text, telegram_datetime)                     *)
(***************************************************************************)
\* the instant the message was received at
telegram_datetime ==
    [type |-> "datetime", date |-> "2026-03-01", tzinfo |-> "America/New_York",
     hour |-> 9, minute |-> 41, second |-> 27, microsecond |-> 5]

\* an error string f"{msg}{line}", kept as its two parts
Error(msg, line) == [msg |-> msg, line |-> line]

\* the message as one string: its raw lines joined by line breaks
RECURSIVE JoinLines(_)
JoinLines(raw) ==
    IF raw = <<>> THEN <<>>
    ELSE IF Len(raw) = 1 THEN raw[1]
    ELSE raw[1] \o <<"\n">> \o JoinLines(Tail(raw))

\* [l.strip() for l in text.splitlines() if l.strip()]
RECURSIVE StrippedLines(_)
StrippedLines(raw) ==
    IF raw = <<>> THEN <<>>
    ELSE (IF strip(raw[1]) # <<>> THEN <<strip(raw[1])>> ELSE <<>>) \o StrippedLines(Tail(raw))

\* TimeDetection falling back to the receipt time when no line yields a time
RECURSIVE TimeDetectionOrNow(_, _)
TimeDetectionOrNow(ls, n) ==
    IF n > Len(ls) THEN telegram_datetime
    ELSE LET maybe_time == parse_time_line(ls[n], telegram_datetime)
         IN  IF maybe_time # None THEN maybe_time ELSE TimeDetectionOrNow(ls, n + 1)

\* TimeDetection without its break: the last line that yields a time wins
RECURSIVE TimeDetectionNoBreak(_, _)
TimeDetectionNoBreak(ls, n) ==
    IF n > Len(ls) THEN None
    ELSE LET later == TimeDetectionNoBreak(ls, n + 1)
         IN  IF later # None THEN later ELSE parse_time_line(ls[n], telegram_datetime)

\* lines 276-281: the time-detection loop, from line n on: the first line that
\* yields a time
RECURSIVE TimeDetection(_, _)
TimeDetection(ls, n) ==
    IF n > Len(ls) THEN None
    ELSE LET maybe_time == parse_time_line(ls[n], telegram_datetime)
         IN  IF maybe_time # None THEN maybe_time ELSE TimeDetection(ls, n + 1)

\* if duration: / if amount:
Truthy(x) ==
    /\ x # None
    /\ (x.type = "int" => x.value # 0)
    /\ (x.type = "number" => x.num # 0)

\* a classifier that takes a side without a duration for a handled line: no error
\* recorded, the line marked processed
SideObservationSilent(side, duration) ==
    IF Truthy(duration)
    THEN [events |-> <<[side |-> side, duration_minutes |-> duration.value]>>,
          processed |-> TRUE, missing |-> FALSE]
    ELSE [events |-> <<>>, processed |-> TRUE, missing |-> FALSE]

\* lines 312-321: the side and the duration of a line that names a side
SideObservation(side, duration) ==
    IF Truthy(duration)
    THEN [events |-> <<[side |-> side, duration_minutes |-> duration.value]>>,
          processed |-> TRUE, missing |-> FALSE]
    ELSE [events |-> <<>>, processed |-> FALSE, missing |-> TRUE]

\* lines 310-321, breastfeeding: what the line adds to breastfeeding_events, whether
\* it marks the line processed, whether it records 'Side duration missing'
BreastfeedingOf(low, whole) ==
    IF fuzzy_contains(low, BREAST_SIDES) /\ DURATION_REGEX(whole).matched
    THEN SideObservation(fuzzy_extract_keyword(low, BREAST_SIDES), parse_duration(low))
    ELSE [events |-> <<>>, processed |-> FALSE, missing |-> FALSE]

\* lines 325-332: the feed type and the amount of a line that names a bottle type
BottleObservation(feed_type, amount) ==
    IF Truthy(amount)
    THEN [events |-> <<[quantity_ml |-> amount,
                        feed_type |-> IF feed_type # NoneStr THEN BOTTLE_TYPES(feed_type)
                                      ELSE NoneStr]>>,
          processed |-> TRUE]
    ELSE [events |-> <<>>, processed |-> FALSE]

\* lines 323-332, bottle feeding
BottleOf(low) ==
    IF fuzzy_contains(low, BOTTLE_TYPES_keys) /\ AMOUNT_REGEX(low).matched
    THEN BottleObservation(fuzzy_extract_keyword(low, BOTTLE_TYPES_keys), parse_amount(low))
    ELSE [events |-> <<>>, processed |-> FALSE]

\* lines 336-340 and 346-350: DIAPER_AMOUNT[size] if size else None
SizeLabel(size) == IF size # NoneStr THEN DIAPER_AMOUNT(size) ELSE NoneStr

\* lines 334-351, diaper wet and diaper poop
DiaperObservations(is_pee, is_poo, size) ==
    [events |-> (IF is_pee THEN <<[diaper_type |-> PEE, size |-> size]>> ELSE <<>>)
                \o (IF is_poo THEN <<[diaper_type |-> POO, size |-> size]>> ELSE <<>>),
     processed |-> is_pee \/ is_poo]

DiaperOf(low) ==
    DiaperObservations(fuzzy_contains(low, PEE_KEYWORDS), fuzzy_contains(low, POO_KEYWORDS),
                       SizeLabel(fuzzy_extract_keyword(low, DIAPER_AMOUNT_keys)))

\* the lists after the line, from what each category made of it; line_processed of
\* the source is is_time or one of the three processed flags
Classified(line, st, is_time, breast, bottle, diaper) ==
    [breastfeeding_events |-> st.breastfeeding_events \o breast.events,
     bottle_events |-> st.bottle_events \o bottle.events,
     diaper_events |-> st.diaper_events \o diaper.events,
     errors |->
         st.errors
         \o (IF breast.missing THEN <<Error("Side duration missing: ", line)>> ELSE <<>>)
         \o (IF ~(is_time \/ breast.processed \/ bottle.processed \/ diaper.processed)
             THEN <<Error("Unrecognized line: ", line)>> ELSE <<>>)]

\* One pass of the event-parsing loop (lines 300-354) over `line`: the three
\* observation lists and the error list after it, given them before it (st) and the
\* whole message text (whole).
ClassifyLine(line, st, whole) ==
    Classified(line, st,
               parse_time_line(line, telegram_datetime) # None,
               BreastfeedingOf(lower(line), whole),
               BottleOf(lower(line)),
               DiaperOf(lower(line)))

\* event.timestamp = timestamp, for an event that is not None
Stamp(event, ts) == IF event = None THEN None ELSE [event EXCEPT !.timestamp = ts]

\* AllEvents with the diaper event put first
AllEventsDiaperFirst(bf, de, bottles, ts) ==
    <<Stamp(de, ts)>> \o <<Stamp(bf, ts)>> \o [i \in DOMAIN bottles |-> Stamp(bottles[i], ts)]

\* line 371: all_events, the list parse_message builds and returns
AllEvents(bf, de, bottles, ts) ==
    <<Stamp(bf, ts)>> \o <<Stamp(de, ts)>> \o [i \in DOMAIN bottles |-> Stamp(bottles[i], ts)]

(***************************************************************************)
(* The messages parse_message is run on                                    *)
(***************************************************************************)
MaxLines == 3

SampleLines ==
    { <<"8",":","0","0","a","m">>,                                     \* 8:00am
      <<"L","e","f","t"," ","1","0"," ","m","i","n">>,                 \* Left 10 min
      <<"b","o","t","h">>,                                             \* both
      <<"f","e","d"," ","f","o","r","m","u","l","a"," ","1","2","0","m","l">>,
                                                                       \* fed formula 120ml
      <<"n","o"," ","t","i","m","e"," ","h","e","r","e">>,             \* no time here
      <<" ","p","e","e"," ","b","i","g">>,                             \*  pee big
      <<"7","p","m"," ","w","e","t"," ","d","i","r","t","y">>,         \* 7pm wet dirty
      <<"m","i","l","k"," ","4"," ","o","z">>,                         \* milk 4 oz
      <<"f","o","r","m","u","l","a"," ","2","5","0","m","l">>,         \* formula 250ml
      <<"l","e","f","t"," ","w","e","t">>,                             \* left wet
      <<"r","i","g","h","t"," ","0">> }                                \* right 0

Messages == UNION {[1..n -> SampleLines] : n \in 1..MaxLines}

(***************************************************************************)
(* parse_message, step by step                                             *)
(***************************************************************************)
Init ==
    /\ Startup
    /\ text \in Messages
    /\ pc = "start"
    /\ lines = <<>>
    /\ idx = 0
    /\ timestamp = None
    /\ errors = <<>>
    /\ breastfeeding_events = <<>>
    /\ bottle_events = <<>>
    /\ diaper_events = <<>>
    /\ result = None
    /\ arg = None
    /\ ret = None

\* lines 272-288: split the text, look for the time, return early without one
DetectTime ==
    /\ pc = "start"
    /\ lines' = StrippedLines(text)
    /\ timestamp' = TimeDetection(lines', 1)
    /\ IF timestamp' = None
       THEN /\ errors' = <<Error("No valid time found.", <<>>)>>
            /\ result' = [type |-> "dict", timestamp |-> None, events |-> <<>>,
                          errors |-> errors']
            /\ pc' = "done"
            /\ idx' = idx
       ELSE /\ errors' = <<>>
            /\ result' = result
            /\ pc' = "lines"
            /\ idx' = 1
    /\ UNCHANGED <<text, breastfeeding_events, bottle_events, diaper_events, arg, ret, bot>>

\* the lists of parse_message take the values of st
Accumulate(st) ==
    /\ breastfeeding_events' = st.breastfeeding_events
    /\ bottle_events' = st.bottle_events
    /\ diaper_events' = st.diaper_events
    /\ errors' = st.errors

\* lines 300-354: one pass of the event-parsing loop
ParseLine ==
    /\ pc = "lines"
    /\ idx <= Len(lines)
    /\ Accumulate(ClassifyLine(lines[idx],
                               [breastfeeding_events |-> breastfeeding_events,
                                bottle_events |-> bottle_events,
                                diaper_events |-> diaper_events,
                                errors |-> errors],
                               JoinLines(text)))
    /\ idx' = idx + 1
    /\ UNCHANGED <<text, pc, lines, timestamp, result, arg, ret, bot>>

\* lines 356-376: combine the observations and return; combine_diaper_events may raise
CombineAndReturn ==
    /\ pc = "lines"
    /\ idx > Len(lines)
    /\ LET combined_breastfeeding_event == combine_breastfeeding_events(breastfeeding_events)
           combined_diaper_event == combine_diaper_events(diaper_events)
           combined_bottle_feeding_events == combine_bottle_feeding_events(bottle_events)
       IN  IF combined_diaper_event = ValueError
           THEN /\ result' = ValueError
                /\ pc' = "raised"
           ELSE /\ result' = [type |-> "list",
                              items |-> AllEvents(combined_breastfeeding_event,
                                                  combined_diaper_event,
                                                  combined_bottle_feeding_events,
                                                  timestamp)]
                /\ pc' = "done"
    /\ UNCHANGED <<text, lines, idx, timestamp, errors, breastfeeding_events,
                   bottle_events, diaper_events, arg, ret, bot>>

Next == DetectTime \/ ParseLine \/ CombineAndReturn

Spec == Init /\ [][Next]_vars

(***************************************************************************)
(* Properties of parse_message                                             *)
(***************************************************************************)
\* what parse_message returns when it finds no time (line 286)
NoTimeResult ==
    [type |-> "dict", timestamp |-> None, events |-> <<>>,
     errors |-> <<Error("No valid time found.", <<>>)>>]

\* the lines of the message that yield a clock time, by their index
TimeLines == {i \in DOMAIN StrippedLines(text) :
                 parse_time_line(StrippedLines(text)[i], telegram_datetime) # None}

\* C1: when no line of the message yields a clock time, parse_message returns
\* timestamp absent, no events and exactly the error "No valid time found.", and
\* classifies no line: no observation is accumulated, no per-line error recorded.
C1_NoTimeIsFatal ==
    (pc # "start" /\ TimeLines = {}) =>
        /\ pc = "done"
        /\ result = NoTimeResult
        /\ idx = 0
        /\ breastfeeding_events = <<>> /\ bottle_events = <<>> /\ diaper_events = <<>>
        /\ errors = <<Error("No valid time found.", <<>>)>>

\* a message of several lines, one of them naming a breastfeeding side, returned
\* from without a time
C1_Witness ==
    /\ pc = "done"
    /\ TimeLines = {}
    /\ Len(lines) >= 2
    /\ \E i \in DOMAIN lines : fuzzy_contains(lines[i], BREAST_SIDES)

\* C2: when a timestamp is resolved, the result parse_message returns carries the
\* timestamp, the finished events and the full list of soft errors recorded while
\* the lines were classified.
C2_ResultCarriesErrors ==
    (pc = "done" /\ timestamp # None) =>
        /\ result.type = "dict"
        /\ result.timestamp = timestamp
        /\ result.errors = errors

\* every digit of s belongs to the number of a volume (a match of AMOUNT_REGEX)
DigitsAreVolumes(s) ==
    \A p \in DOMAIN s :
        IsDigit(s[p]) =>
            \E q \in AmountStarts(s) :
                q <= p /\ p < q + Len(AmountAt(s, q).whole) + Len(AmountAt(s, q).frac) + 1

\* C3: a message with no clock-time expression, whose only digits are volume
\* quantities, resolves to no timestamp: parse_message returns timestamp absent,
\* no events and errors = ["No valid time found."].
C3_VolumeIsNoTime ==
    (pc # "start" /\ \A i \in DOMAIN lines : DigitsAreVolumes(lines[i])) =>
        /\ timestamp = None
        /\ pc = "done"
        /\ result = NoTimeResult

\* the place of an event's category in the order the original claim gives
DiaperFirstRank(event) ==
    IF event.type = "DiaperEvent" THEN 1
    ELSE IF event.type = "BreastFeedingEvent" THEN 2
    ELSE 3

\* C4 as claimed: in every result of a successful parse the diaper event comes
\* first, then the breastfeeding event, then the bottle events.
C4_DiaperFirst ==
    (pc = "done" /\ result.type = "list") =>
        \A i, j \in DOMAIN result.items :
            (i < j /\ result.items[i] # None /\ result.items[j] # None) =>
                DiaperFirstRank(result.items[i]) <= DiaperFirstRank(result.items[j])

\* C4 as amended: the list a successful parse returns holds the breastfeeding event
\* first (None when there is none), the diaper event second (None when there is
\* none), and the bottle events after them.
C4_BreastfeedingFirst ==
    (pc = "done" /\ result.type = "list") =>
        /\ Len(result.items) >= 2
        /\ result.items[1].type \in {"BreastFeedingEvent", "None"}
        /\ result.items[2].type \in {"DiaperEvent", "None"}
        /\ \A i \in 3..Len(result.items) : result.items[i].type = "BottleFeedingEvent"
        /\ (result.items[1] = None <=> breastfeeding_events = <<>>)
        /\ (result.items[2] = None <=> diaper_events = <<>>)
        /\ (Len(result.items) = 2 <=> bottle_events = <<>>)

\* a successful parse that produced an event of each of the three categories
C4_Witness ==
    /\ pc = "done"
    /\ result.type = "list"
    /\ Len(result.items) >= 3
    /\ result.items[1] # None
    /\ result.items[2] # None

\* C5: every finished event of a successful parse carries the same timestamp, the
\* instant parse_time_line yields for the first line, in message order, that yields
\* one; later lines that yield a clock time do not change it.
C5_FirstTimeWins ==
    (pc = "done" /\ result.type = "list") =>
        /\ TimeLines # {}
        /\ \A e \in Range(result.items) :
               e # None =>
                   e.timestamp =
                       parse_time_line(
                           StrippedLines(text)[CHOOSE i \in TimeLines : \A j \in TimeLines : i <= j],
                           telegram_datetime)

\* a successful parse with an event, of a message whose first line yields no time
\* and two of whose later lines yield different times
C5_Witness ==
    /\ pc = "done"
    /\ result.type = "list"
    /\ \E e \in Range(result.items) : e # None
    /\ 1 \notin TimeLines
    /\ \E i, j \in TimeLines :
           parse_time_line(lines[i], telegram_datetime)
               # parse_time_line(lines[j], telegram_datetime)

(***************************************************************************)
(* The field extractors and the combiners called alone                     *)
(***************************************************************************)
MaxWords == 3
MaxObs == 3

\* no call of parse_message is under way
NoMessage ==
    /\ Startup
    /\ text = <<>>
    /\ lines = <<>>
    /\ idx = 0
    /\ timestamp = None
    /\ errors = <<>>
    /\ breastfeeding_events = <<>>
    /\ bottle_events = <<>>
    /\ diaper_events = <<>>
    /\ result = None

Idle_parser == <<text, lines, idx, timestamp, errors, breastfeeding_events, bottle_events,
                 diaper_events, result>>

Idle == <<Idle_parser, bot>>

\* words joined by single spaces
RECURSIVE JoinWords(_)
JoinWords(ws) ==
    IF Len(ws) = 1 THEN ws[1] ELSE ws[1] \o <<" ">> \o JoinWords(Tail(ws))

DurationVocabulary ==
    { <<"l","e","f","t">>, <<"1","h">>, <<"3","0","m">>, <<"1","0">>, <<"0">>,
      <<"m","i","n">>, <<"2">>, <<"h","o","u","r","s">> }

\* the texts parse_duration is called on: up to MaxWords words of the vocabulary
DurationTexts ==
    {JoinWords(ws) : ws \in UNION {[1..n -> DurationVocabulary] : n \in 1..MaxWords}}

InitDuration ==
    /\ NoMessage
    /\ pc = "call"
    /\ arg \in DurationTexts
    /\ ret = None

CallParseDuration ==
    /\ pc = "call"
    /\ ret' = parse_duration(arg)
    /\ pc' = "returned"
    /\ UNCHANGED <<arg, Idle>>

SpecDuration == InitDuration /\ [][CallParseDuration]_vars

\* the durations of the side observations the combiner is called on
SideDurations == {3, 10}

SideObservations == [side : {LEFT, RIGHT, EACH, BOTH}, duration_minutes : SideDurations]

InitBreastfeeding ==
    /\ NoMessage
    /\ pc = "call"
    /\ arg \in UNION {[1..n -> SideObservations] : n \in 0..MaxObs}
    /\ ret = None

CallCombineBreastfeeding ==
    /\ pc = "call"
    /\ ret' = combine_breastfeeding_events(arg)
    /\ pc' = "returned"
    /\ UNCHANGED <<arg, Idle>>

SpecBreastfeeding == InitBreastfeeding /\ [][CallCombineBreastfeeding]_vars

\* the observations the line classifier emits for a diaper: {diaper_type, size}
DiaperSamples == [diaper_type : {PEE, POO}, size : {NoneStr, LITTLE, MEDIUM, BIG}]

InitDiaper ==
    /\ NoMessage
    /\ pc = "call"
    /\ arg \in UNION {[1..n -> DiaperSamples] : n \in 0..MaxObs}
    /\ ret = None

CallCombineDiaper ==
    /\ pc = "call"
    /\ ret' = combine_diaper_events(arg)
    /\ pc' = "returned"
    /\ UNCHANGED <<arg, Idle>>

SpecDiaper == InitDiaper /\ [][CallCombineDiaper]_vars

(***************************************************************************)
(* Properties of the combiners and of parse_duration                       *)
(***************************************************************************)
\* twice what one side observation adds to the left or to the right total
TwiceShare(o, side) ==
    IF o.side \in {side, EACH} THEN 2 * o.duration_minutes
    ELSE IF o.side = BOTH THEN o.duration_minutes
    ELSE 0

\* the sum of TwiceShare over the observations of obs with their index in I
RECURSIVE TwiceTotal(_, _, _)
TwiceTotal(obs, I, side) ==
    IF I = {} THEN 0
    ELSE LET i == CHOOSE k \in I : TRUE
         IN  TwiceShare(obs[i], side) + TwiceTotal(obs, I \ {i}, side)

\* x = n / 2
IsHalfOf(x, n) == 2 * x.num = n * x.den

\* C6: combine_breastfeeding_events returns no event for an empty list, and for a
\* non-empty list one BreastFeedingEvent whose left total is the sum of the 'left'
\* and 'each' durations plus half of every 'both' duration, its right total likewise
\* with 'right', whatever the order of the observations.
C6_SideTotals ==
    pc = "returned" =>
        IF arg = <<>> THEN ret = None
        ELSE /\ ret.type = "BreastFeedingEvent"
             /\ IsHalfOf(ret.left_duration_minutes, TwiceTotal(arg, DOMAIN arg, LEFT))
             /\ IsHalfOf(ret.right_duration_minutes, TwiceTotal(arg, DOMAIN arg, RIGHT))
             /\ \A q \in Permutations(DOMAIN arg) :
                    combine_breastfeeding_events([i \in DOMAIN arg |-> arg[q[i]]]) = ret

\* three observations combined, among them a 'both' of an odd duration, an 'each'
\* and a 'left'
C6_Witness ==
    /\ pc = "returned"
    /\ Len(arg) = 3
    /\ \E i, j, k \in DOMAIN arg :
           /\ arg[i].side = BOTH /\ arg[i].duration_minutes % 2 = 1
           /\ arg[j].side = EACH
           /\ arg[k].side = LEFT

\* C7: a single diaper observation {diaper_type, size} is passed through unchanged:
\* the event has the observation's kind, its size as pee_size for a pee and as
\* poo_size for a poo, and neither color nor consistency.
C7_SinglePassThrough ==
    (pc = "returned" /\ Len(arg) = 1) =>
        /\ ret.type = "DiaperEvent"
        /\ ret.diaper_type = arg[1].diaper_type
        /\ (arg[1].diaper_type = PEE => ret.pee_size = arg[1].size)
        /\ (arg[1].diaper_type = POO => ret.poo_size = arg[1].size)
        /\ ret.color = NoneStr
        /\ ret.consistency = NoneStr

\* the number of observations of a kind
CountOfType(events, kind) == Cardinality({i \in DOMAIN events : events[i].diaper_type = kind})

\* C8: more than one diaper observation gives a merged event only when the list
\* holds exactly one pee and exactly one poo; every other such list (two pee, two
\* poo, three or more observations) ends in the combination error, with no event.
C8_ExactlyOnePeeOnePoo ==
    (pc = "returned" /\ Len(arg) > 1) =>
        IF CountOfType(arg, PEE) = 1 /\ CountOfType(arg, POO) = 1
        THEN ret.type = "DiaperEvent" /\ ret.diaper_type = BOTH
        ELSE ret = ValueError

\* C9: parse_duration never returns zero: its result is a strictly positive number
\* of minutes or absent, and absent only for a text with no number at all.
C9_NeverZero ==
    pc = "returned" =>
        /\ (ret # None => ret.value > 0)
        /\ (ret = None => \A p \in DOMAIN arg : ~IsDigit(arg[p]))

\* the hours and minutes parts of the duration pattern read at position p of t
DurationExprAt(t, p) == DURATION_REGEX(SubSeq(t, p, Len(t)))

\* the positions of t where an hours and/or minutes expression stands
DurationExprs(t) ==
    {p \in DOMAIN t : DurationExprAt(t, p).group1 # <<>> \/ DurationExprAt(t, p).group2 # <<>>}

\* hours * 60 + minutes of the groups of a match
MinutesOf(match) ==
    (IF match.group1 # <<>> THEN int(match.group1) * 60 ELSE 0)
    + (IF match.group2 # <<>> THEN int(match.group2) ELSE 0)

\* C10: for every text that holds an hours and/or minutes expression, wherever it
\* stands in the line, parse_duration returns hours * 60 + minutes of it; the
\* bare-integer fallback is used only for a text with neither part.
C10_DurationAnywhere ==
    (pc = "returned" /\ DurationExprs(DurationWords(arg)) # {}) =>
        ret = BoxInt(MinutesOf(DurationExprAt(
                  DurationWords(arg),
                  CHOOSE p \in DurationExprs(DurationWords(arg)) :
                      \A q \in DurationExprs(DurationWords(arg)) : p <= q)))


(***************************************************************************)
(* The classifier on a line that names a side without a duration           *)
(***************************************************************************)
\* the line names a breastfeeding side and parse_duration gives nothing usable for it
SideWithoutDuration(line) ==
    /\ fuzzy_contains(lower(line), BREAST_SIDES)
    /\ ~Truthy(parse_duration(lower(line)))

NamesPee(line) == fuzzy_contains(lower(line), PEE_KEYWORDS)

NamesPoo(line) == fuzzy_contains(lower(line), POO_KEYWORDS)

NamesBottle(line) ==
    /\ fuzzy_contains(lower(line), BOTTLE_TYPES_keys)
    /\ Truthy(parse_amount(lower(line)))

\* a category other than breastfeeding takes the line: time, bottle, wet or dirty diaper
OtherCategory(line) ==
    \/ parse_time_line(line, telegram_datetime) # None
    \/ NamesBottle(line)
    \/ NamesPee(line)
    \/ NamesPoo(line)

\* what the loop pass over `line` must leave behind, from the lists before (unprimed
\* arguments) and after (new_*)
SoftErrorPass(line, old_errors, new_errors, old_diapers, new_diapers, old_bottles, new_bottles) ==
    /\ Len(new_errors) = Len(old_errors) + (IF OtherCategory(line) THEN 1 ELSE 2)
    /\ SubSeq(new_errors, 1, Len(old_errors)) = old_errors
    /\ new_errors[Len(old_errors) + 1] = Error("Side duration missing: ", line)
    /\ ~OtherCategory(line) =>
           new_errors[Len(old_errors) + 2] = Error("Unrecognized line: ", line)
    /\ Len(new_diapers) = Len(old_diapers) + (IF NamesPee(line) THEN 1 ELSE 0)
                                            + (IF NamesPoo(line) THEN 1 ELSE 0)
    /\ Len(new_bottles) = Len(old_bottles) + (IF NamesBottle(line) THEN 1 ELSE 0)

\* C11: whenever the event-parsing loop passes over a line that names a breastfeeding
\* side but gives no duration, the pass appends 'Side duration missing: <line>' to the
\* errors, adds no breastfeeding observation, appends 'Unrecognized line: <line>' as
\* well exactly when no other category (time, bottle, diaper) takes the line, adds the
\* bottle and diaper observations the line calls for, and the loop moves on to the
\* next line.
C11_SideDurationMissing ==
    [][ (pc = "lines" /\ idx <= Len(lines) /\ SideWithoutDuration(lines[idx])) =>
            /\ pc' = "lines"
            /\ idx' = idx + 1
            /\ breastfeeding_events' = breastfeeding_events
            /\ SoftErrorPass(lines[idx], errors, errors', diaper_events, diaper_events',
                             bottle_events, bottle_events') ]_vars

\* a line naming a side without a duration and a wet diaper has been classified, its
\* soft error and its diaper observation are there, and a later line has been
\* classified after it
C11_Witness ==
    /\ pc = "lines"
    /\ \E i \in 1..Len(lines) :
          /\ i + 1 < idx
          /\ SideWithoutDuration(lines[i])
          /\ NamesPee(lines[i])
          /\ \E k \in DOMAIN errors : errors[k] = Error("Side duration missing: ", lines[i])
          /\ \A k \in DOMAIN errors : errors[k] # Error("Unrecognized line: ", lines[i])
          /\ diaper_events # <<>>
          /\ breastfeeding_events = <<>>


(***************************************************************************)
(* telegram.py: the pending store, the callbacks and the cleanup task      *)
(***************************************************************************)
MaxMessages == 1       \* confirmation messages sent
MaxClock == 720        \* seconds of running time explored
TickSeconds == 30      \* the clock is looked at every TickSeconds

CONFIRM_TTL_MINUTES == 10

\* asyncio.sleep(60) of cleanup_expired
CleanupSleep == 60

\* timedelta(minutes=m), in seconds
timedelta(m) == m * 60

Min(a, b) == IF a <= b THEN a ELSE b

\* an exception leaves the handler
Raised == [type |-> "Exception"]

\* one finished event, as parse_message builds it from 'left 10 min'
SomeEvents ==
    <<Stamp(combine_breastfeeding_events(<<[side |-> LEFT, duration_minutes |-> 10]>>),
            telegram_datetime),
      None>>

\* What parse_message(text, ...) may hand to parse_dsl: the dict of the early return,
\* the list of the normal return, and the pair (events, errs) that line 40 unpacks.
ParseMessageReturns ==
    { [type |-> "dict", timestamp |-> None, events |-> <<>>,
       errors |-> <<Error("No valid time found.", <<>>)>>],
      [type |-> "list", items |-> SomeEvents],
      [type |-> "tuple", events |-> [type |-> "list", items |-> SomeEvents], errs |-> <<>>],
      [type |-> "tuple", events |-> [type |-> "list", items |-> <<>>], errs |-> <<>>],
      [type |-> "tuple", events |-> [type |-> "list", items |-> SomeEvents],
       errs |-> <<Error("Unrecognized line: ", <<"x">>)>>] }

\* parse_dsl, from the value parse_message returned: `events, errs = ...` raises on
\* the three-key dict and on a list that is not two values long, and len(errs)
\* raises on the second value of a two-item list (None or an event)
parse_dsl(returned) ==
    IF returned.type # "tuple" THEN Raised
    ELSE IF Len(returned.errs) > 0 THEN None
    ELSE returned.events

\* pending_confirmations[message_id] = entry
Store(pending, message_id, entry) ==
    [m \in DOMAIN pending \cup {message_id} |->
        IF m = message_id THEN entry ELSE pending[m]]

\* del pending_confirmations[message_id], for each message_id of `gone`
Delete(pending, gone) == [m \in DOMAIN pending \ gone |-> pending[m]]

\* the ids cleanup_expired collects in `expired`
Expired(pending, at) ==
    {m \in DOMAIN pending : at - pending[m].timestamp > timedelta(CONFIRM_TTL_MINUTES)}

InitTelegram ==
    /\ NoMessage
    /\ pc = "serving"
    /\ arg = None
    /\ ret = None

\* handle_message after parse_dsl returned parsed_events
StorePending(parsed_events) ==
    IF parsed_events = Raised \/ parsed_events = None
    THEN UNCHANGED <<pending_confirmations, next_message_id, sent>>
    ELSE IF parsed_events.items = <<>>
    THEN /\ sent' = "Could not parse event."
         /\ UNCHANGED <<pending_confirmations, next_message_id>>
    ELSE /\ next_message_id <= MaxMessages
         /\ sent' = "Confirm upload?"
         /\ pending_confirmations' =
                Store(pending_confirmations, next_message_id,
                      [parsed_events |-> parsed_events, timestamp |-> now])
         /\ next_message_id' = next_message_id + 1

handle_message ==
    /\ pc = "serving"
    /\ \E returned \in ParseMessageReturns : StorePending(parse_dsl(returned))
    /\ UNCHANGED <<now, cleanup_wake, uploads, pc, arg, ret, Idle_parser>>

\* handle_callback with the pending entry found
Settle(data, message_id, pending) ==
    IF data = "confirm"
    THEN /\ \E success \in BOOLEAN :
              /\ uploads' = Append(uploads, [message_id |-> message_id,
                                             parsed_events |-> pending.parsed_events,
                                             timestamp |-> pending.timestamp,
                                             at |-> now,
                                             success |-> success])
              /\ sent' = IF success THEN "Uploaded successfully." ELSE "Upload failed."
         /\ pending_confirmations' = Delete(pending_confirmations, {message_id})
    ELSE /\ sent' = "Cancelled."
         /\ pending_confirmations' = Delete(pending_confirmations, {message_id})
         /\ UNCHANGED uploads

handle_callback ==
    /\ pc = "serving"
    /\ \E data \in {"confirm", "cancel"}, message_id \in 1..MaxMessages :
          IF message_id \notin DOMAIN pending_confirmations
          THEN /\ sent' = "No pending event found or expired."
               /\ UNCHANGED <<pending_confirmations, uploads>>
          ELSE Settle(data, message_id, pending_confirmations[message_id])
    /\ UNCHANGED <<now, cleanup_wake, next_message_id, pc, arg, ret, Idle_parser>>

\* one round of the loop of cleanup_expired, run when its sleep ends
cleanup_expired ==
    /\ pc = "serving"
    /\ now >= cleanup_wake
    /\ pending_confirmations' =
           Delete(pending_confirmations, Expired(pending_confirmations, now))
    /\ cleanup_wake' = now + CleanupSleep
    /\ UNCHANGED <<now, next_message_id, uploads, sent, pc, arg, ret, Idle_parser>>

\* time passes, never beyond the moment the cleanup task is due
Tick ==
    /\ pc = "serving"
    /\ now < cleanup_wake
    /\ now < MaxClock
    /\ now' = Min(Min(now + TickSeconds, cleanup_wake), MaxClock)
    /\ UNCHANGED <<cleanup_wake, pending_confirmations, next_message_id, uploads, sent,
                   pc, arg, ret, Idle_parser>>

NextTelegram == handle_message \/ handle_callback \/ cleanup_expired \/ Tick

SpecTelegram == InitTelegram /\ [][NextTelegram]_vars

=============================================================================


